---- MODULE Spec2Model ----
(***************************************************************************)
(* Support Ticket Triage (src/app.py): the keyword classifier              *)
(* (categorize_ticket, determine_urgency, generate_rationale) and the two  *)
(* HTTP handlers that call it (triage_ticket, triage_bulk_tickets with     *)
(* process_csv_tickets).  Ticket texts are TLA+ strings; every substring   *)
(* test, lower-casing, trimming and CSV parse is computed character by     *)
(* character, as Python computes it.                                       *)
(***************************************************************************)
EXTENDS Integers, Sequences, FiniteSets, TLC

VARIABLES pc, op, text, category, urgency, counts, filename, content, response, invoked

vars == <<pc, op, text, category, urgency, counts, filename, content, response, invoked>>

(***************************************************************************)
(* Bounds of the model.                                                    *)
(***************************************************************************)
\* a ticket text is made of at most MaxPhrases phrases of Phrases
MaxPhrases == 2
\* an uploaded file is the concatenation of at most MaxParts pieces of Parts
MaxParts == 3

(***************************************************************************)
(* Python str operations.                                                  *)
(***************************************************************************)
UpperCase == "ABCDEFGHIJKLMNOPQRSTUVWXYZ"
LowerCase == "abcdefghijklmnopqrstuvwxyz"

\* the i-th character of s, as a string of length 1
CharAt(s, i) == SubSeq(s, i, i)

\* str.lower() on the ASCII letters
LowerOf == [c \in {CharAt(UpperCase, i) : i \in 1..Len(UpperCase)} |->
               CharAt(LowerCase, CHOOSE i \in 1..Len(UpperCase) : CharAt(UpperCase, i) = c)]

\* str.lower() on one character (every other character of the model's
\* alphabet is its own lower case)
LowerChar(c) == IF c \in DOMAIN LowerOf THEN LowerOf[c] ELSE c

RECURSIVE LowerFrom(_, _)
LowerFrom(s, i) ==
    IF i > Len(s) THEN "" ELSE LowerChar(CharAt(s, i)) \o LowerFrom(s, i + 1)

\* text.lower()
Lower(s) == LowerFrom(s, 1)

\* `word in s`: word occurs in s as a contiguous substring
Contains(s, word) ==
    \E i \in 1..(Len(s) - Len(word) + 1) : SubSeq(s, i, i + Len(word) - 1) = word

\* any(word in s for word in words)
AnyIn(s, words) == \E k \in 1..Len(words) : Contains(s, words[k])

\* sum(1 for word in words if word in s): one per list ENTRY that occurs
CountIn(s, words) == Cardinality({k \in 1..Len(words) : Contains(s, words[k])})

\* the characters str.strip() removes
Whitespace == {" ", "\t", "\n", "\r", "\f"}

RECURSIVE LStripFrom(_, _)
LStripFrom(s, i) ==
    IF i <= Len(s) /\ CharAt(s, i) \in Whitespace THEN LStripFrom(s, i + 1) ELSE i

RECURSIVE RStripFrom(_, _)
RStripFrom(s, j) ==
    IF j >= 1 /\ CharAt(s, j) \in Whitespace THEN RStripFrom(s, j - 1) ELSE j

\* s.strip()
Strip(s) == SubSeq(s, LStripFrom(s, 1), RStripFrom(s, Len(s)))

\* s.endswith(suffix)
EndsWith(s, suffix) ==
    Len(s) >= Len(suffix) /\ SubSeq(s, Len(s) - Len(suffix) + 1, Len(s)) = suffix

(***************************************************************************)
(* categorize_ticket                                                       *)
(***************************************************************************)
billing_keywords ==
    << "charged", "charge", "billed", "bill", "payment", "pay", "money",
       "refund", "credit", "debit", "subscription", "plan", "price", "cost",
       "invoice", "receipt", "transaction", "duplicate", "overcharge" >>

\* "broken" is listed twice in the source
bug_keywords ==
    << "error", "broken", "crash", "fail", "not working", "doesn't work",
       "issue", "problem", "bug", "glitch", "freeze", "hang", "slow",
       "crashed", "failed", "broken", "malfunction", "defect" >>

feature_keywords ==
    << "add", "new feature", "enhancement", "improvement", "suggestion",
       "request", "would like", "could you", "missing", "need", "want",
       "idea", "proposal", "recommendation", "wish", "hope" >>

\* billing_count, bug_count, feature_count of categorize_ticket(t)
keyword_counts(t) ==
    LET text_lower == Lower(t) IN
    [ billing |-> CountIn(text_lower, billing_keywords),
      bug     |-> CountIn(text_lower, bug_keywords),
      feature |-> CountIn(text_lower, feature_keywords) ]

\* pick_category with the default never taken (feature_count >= 0)
pick_category_no_default(c) ==
    IF c.billing > c.bug /\ c.billing > c.feature THEN "billing"
    ELSE IF c.bug > c.feature THEN "bug"
    ELSE IF c.feature >= 0 THEN "feature"
    ELSE "other"

\* pick_category with billing winning its ties (>= for >)
pick_category_billing_ties(c) ==
    IF c.billing >= c.bug /\ c.billing > c.feature THEN "billing"
    ELSE IF c.bug > c.feature THEN "bug"
    ELSE IF c.feature > 0 THEN "feature"
    ELSE "other"

\* pick_category with bug winning its tie against feature
pick_category_bug_ties(c) ==
    IF c.billing > c.bug /\ c.billing > c.feature THEN "billing"
    ELSE IF c.bug >= c.feature /\ c.bug > 0 THEN "bug"
    ELSE IF c.feature > 0 THEN "feature"
    ELSE "other"

\* the if/elif chain on the three counts
pick_category(c) ==
    IF c.billing > c.bug /\ c.billing > c.feature THEN "billing"
    ELSE IF c.bug > c.feature THEN "bug"
    ELSE IF c.feature > 0 THEN "feature"
    ELSE "other"

categorize_ticket(t) == pick_category(keyword_counts(t))

(***************************************************************************)
(* determine_urgency                                                       *)
(***************************************************************************)
high_urgency_keywords ==
    << "urgent", "asap", "immediately", "critical", "emergency", "broken",
       "not working", "can't access", "locked out", "security", "hacked",
       "data loss", "down", "outage", "duplicate charge", "overcharged" >>

medium_urgency_keywords ==
    << "soon", "today", "this week", "important", "blocking", "stuck",
       "can't proceed", "issue", "problem", "bug", "glitch" >>

\* the billing high list without "duplicate"
billing_high_words_short == << "overcharge", "wrong amount", "double" >>
billing_high_words == << "duplicate", "overcharge", "wrong amount", "double" >>
billing_medium_words == << "refund", "credit", "dispute" >>
bug_high_words == << "crash", "broken", "not working", "can't access" >>
bug_low_words == << "slow", "glitch", "minor" >>

\* determine_urgency with billing falling back to low
determine_urgency_billing_low(t, cat) ==
    LET text_lower == Lower(t) IN
    IF cat = "billing" THEN
        IF AnyIn(text_lower, billing_high_words) THEN "high"
        ELSE IF AnyIn(text_lower, billing_medium_words) THEN "medium"
        ELSE "low"
    ELSE IF cat = "bug" THEN
        IF AnyIn(text_lower, bug_high_words) THEN "high"
        ELSE IF AnyIn(text_lower, bug_low_words) THEN "low"
        ELSE "medium"
    ELSE IF AnyIn(text_lower, high_urgency_keywords) THEN "high"
    ELSE IF AnyIn(text_lower, medium_urgency_keywords) THEN "medium"
    ELSE "low"

\* determine_urgency with the bug branch not returning when no bug word
\* matches, so that the generic scan decides
determine_urgency_bug_falls_through(t, cat) ==
    LET text_lower == Lower(t) IN
    IF cat = "billing" THEN
        IF AnyIn(text_lower, billing_high_words) THEN "high"
        ELSE IF AnyIn(text_lower, billing_medium_words) THEN "medium"
        ELSE "medium"
    ELSE IF cat = "bug" /\ AnyIn(text_lower, bug_high_words) THEN "high"
    ELSE IF cat = "bug" /\ AnyIn(text_lower, bug_low_words) THEN "low"
    ELSE IF AnyIn(text_lower, high_urgency_keywords) THEN "high"
    ELSE IF AnyIn(text_lower, medium_urgency_keywords) THEN "medium"
    ELSE IF cat = "bug" THEN "medium"
    ELSE "low"

determine_urgency(t, cat) ==
    LET text_lower == Lower(t) IN
    IF cat = "billing" THEN
        IF AnyIn(text_lower, billing_high_words) THEN "high"
        ELSE IF AnyIn(text_lower, billing_medium_words) THEN "medium"
        ELSE "medium"
    ELSE IF cat = "bug" THEN
        IF AnyIn(text_lower, bug_high_words) THEN "high"
        ELSE IF AnyIn(text_lower, bug_low_words) THEN "low"
        ELSE "medium"
    ELSE IF AnyIn(text_lower, high_urgency_keywords) THEN "high"
    ELSE IF AnyIn(text_lower, medium_urgency_keywords) THEN "medium"
    ELSE "low"

(***************************************************************************)
(* generate_rationale                                                      *)
(***************************************************************************)
\* first element of rationale_parts
category_clause(cat, t) ==
    LET text_lower == Lower(t) IN
    IF cat = "billing" THEN
        IF Contains(text_lower, "duplicate") \/ Contains(text_lower, "overcharge")
        THEN "Payment/billing keywords detected"
        ELSE "Billing/payment related issue"
    ELSE IF cat = "bug" THEN
        IF Contains(text_lower, "crash") \/ Contains(text_lower, "broken")
        THEN "System failure/crash keywords detected"
        ELSE "Technical issue/bug reported"
    ELSE IF cat = "feature" THEN "Feature request/enhancement suggested"
    ELSE "General inquiry/other category"

\* second element of rationale_parts
urgency_clause(cat, urg) ==
    IF urg = "high" THEN
        IF cat = "billing" THEN "Financial impact; time-sensitive"
        ELSE IF cat = "bug" THEN "System critical; immediate attention needed"
        ELSE "High priority indicators detected"
    ELSE IF urg = "medium" THEN
        IF cat = "billing" THEN "Moderate financial impact"
        ELSE IF cat = "bug" THEN "Moderate system impact"
        ELSE "Moderate priority indicators"
    ELSE "Low priority; can be addressed later"

\* "; ".join(rationale_parts) + "."
generate_rationale(cat, urg, t) ==
    category_clause(cat, t) \o "; " \o urgency_clause(cat, urg) \o "."

(***************************************************************************)
(* HTTP results.  A handler either returns its response model (status      *)
(* StatusOK) or raises; a raised HTTPException becomes the response with   *)
(* its status_code and detail.                                             *)
(***************************************************************************)
StatusOK == 200
StatusBadRequest == 400
StatusServerError == 500

\* HTTPException(status_code=..., detail=...)
HTTPException(status_code, detail) ==
    [type |-> "HTTPException", status_code |-> status_code, detail |-> detail]

\* exceptions raised by the libraries the handlers call
UnicodeDecodeError == [type |-> "UnicodeDecodeError", status_code |-> 0, detail |-> "invalid start byte"]
CsvError == [type |-> "csv.Error", status_code |-> 0, detail |-> "new-line character seen in unquoted field"]

\* str(e) inside the f-strings: starlette renders an HTTPException as
\* "<status_code>: <detail>", other exceptions render their message
Str(e) ==
    IF e.type = "HTTPException"
    THEN (IF e.status_code = StatusBadRequest THEN "400" ELSE "500") \o ": " \o e.detail
    ELSE e.detail

Returned(v) == [raised |-> FALSE, value |-> v]
Raised(e) == [raised |-> TRUE, exc |-> e]

\* TriageResponse(category=..., urgency=..., rationale=..., text=...)
TriageResponse(cat, urg, rat, t) ==
    [category |-> cat, urgency |-> urg, rationale |-> rat, text |-> t]

\* lines 158-167 and 212-221: classify one text and build its TriageResponse
classify(t) ==
    LET cat == categorize_ticket(t)
        urg == determine_urgency(t, cat)
        rat == generate_rationale(cat, urg, t)
    IN TriageResponse(cat, urg, rat, t)

\* the core functions one classification calls, in order
CoreCalls == << "categorize_ticket", "determine_urgency", "generate_rationale" >>

(***************************************************************************)
(* POST /api/triage                                                        *)
(***************************************************************************)
\* triage_ticket testing the text without strip()
triage_ticket_no_strip(t) ==
    IF t = ""
    THEN [out |-> Raised(HTTPException(StatusBadRequest, "Ticket text cannot be empty")),
          calls |-> << >>]
    ELSE [out |-> Returned(classify(t)), calls |-> CoreCalls]

\* the handler's outcome and the core functions it invoked
triage_ticket(t) ==
    IF Strip(t) = ""
    THEN [out |-> Raised(HTTPException(StatusBadRequest, "Ticket text cannot be empty")),
          calls |-> << >>]
    ELSE [out |-> Returned(classify(t)), calls |-> CoreCalls]

(***************************************************************************)
(* The uploaded file: bytes, decoded as UTF-8.  The bytes of the model are *)
(* ASCII, which decode to one character each, and 0xFF, which no UTF-8     *)
(* text contains; among these a file is valid UTF-8 iff it has no byte     *)
(* above 127.                                                              *)
(***************************************************************************)
PrintableLow == " !\"#$%&'()*+,-./0123456789:;<=>?@ABCDEFGHIJKLMNOPQRSTUVWXYZ[\\]^_"
PrintableHigh == "abcdefghijklmnopqrstuvwxyz{|}~"

\* the ASCII bytes the model has a character for
AsciiBytes == {9, 10, 13} \cup (32..95) \cup (97..126)

\* the character a single ASCII byte decodes to
Chr(b) ==
    IF b = 9 THEN "\t"
    ELSE IF b = 10 THEN "\n"
    ELSE IF b = 13 THEN "\r"
    ELSE IF b <= 95 THEN CharAt(PrintableLow, b - 31)
    ELSE CharAt(PrintableHigh, b - 96)

\* str.encode('utf-8') of an ASCII string: what a client uploads
Encode(s) == [i \in 1..Len(s) |-> CHOOSE b \in AsciiBytes : Chr(b) = CharAt(s, i)]

RECURSIVE DecodeFrom(_, _)
DecodeFrom(bytes, i) ==
    IF i > Len(bytes) THEN "" ELSE Chr(bytes[i]) \o DecodeFrom(bytes, i + 1)

\* csv_content.decode('utf-8')
decode_utf8(bytes) ==
    IF \E i \in 1..Len(bytes) : bytes[i] >= 128
    THEN Raised(UnicodeDecodeError)
    ELSE Returned(DecodeFrom(bytes, 1))

(***************************************************************************)
(* csv.reader(io.StringIO(csv_content)) with the default (excel) dialect:  *)
(* delimiter ",", quotechar '"', doublequote, not strict.  StringIO        *)
(* yields the lines ended by "\n"; the reader feeds each character of a    *)
(* line, then an end-of-line mark, to its state machine, and yields a row  *)
(* whenever the machine is back at the start of a record.                  *)
(***************************************************************************)
EOL == "EOL"

parse_reset == [state |-> "START_RECORD", field |-> "", fields |-> << >>, error |-> FALSE]

parse_save_field(st) == [st EXCEPT !.fields = Append(@, st.field), !.field = ""]

parse_add_char(st, c) == [st EXCEPT !.field = @ \o c]

IsNewline(c) == c = "\n" \/ c = "\r"

\* the state after a line break or the end of the line
AfterBreak(c) == IF c = EOL THEN "START_RECORD" ELSE "EAT_CRNL"

parse_process_char(st, c) ==
    IF st.state \in {"START_RECORD", "START_FIELD"} THEN
        IF st.state = "START_RECORD" /\ c = EOL THEN st
        ELSE IF st.state = "START_RECORD" /\ IsNewline(c) THEN [st EXCEPT !.state = "EAT_CRNL"]
        ELSE IF IsNewline(c) \/ c = EOL
             THEN [parse_save_field(st) EXCEPT !.state = AfterBreak(c)]
        ELSE IF c = "\"" THEN [st EXCEPT !.state = "IN_QUOTED_FIELD"]
        ELSE IF c = "," THEN [parse_save_field(st) EXCEPT !.state = "START_FIELD"]
        ELSE [parse_add_char(st, c) EXCEPT !.state = "IN_FIELD"]
    ELSE IF st.state = "IN_FIELD" THEN
        IF IsNewline(c) \/ c = EOL
        THEN [parse_save_field(st) EXCEPT !.state = AfterBreak(c)]
        ELSE IF c = "," THEN [parse_save_field(st) EXCEPT !.state = "START_FIELD"]
        ELSE parse_add_char(st, c)
    ELSE IF st.state = "IN_QUOTED_FIELD" THEN
        IF c = EOL THEN st
        ELSE IF c = "\"" THEN [st EXCEPT !.state = "QUOTE_IN_QUOTED_FIELD"]
        ELSE parse_add_char(st, c)
    ELSE IF st.state = "QUOTE_IN_QUOTED_FIELD" THEN
        IF c = "\"" THEN [parse_add_char(st, c) EXCEPT !.state = "IN_QUOTED_FIELD"]
        ELSE IF c = "," THEN [parse_save_field(st) EXCEPT !.state = "START_FIELD"]
        ELSE IF IsNewline(c) \/ c = EOL
             THEN [parse_save_field(st) EXCEPT !.state = AfterBreak(c)]
        ELSE [parse_add_char(st, c) EXCEPT !.state = "IN_FIELD"]
    ELSE \* EAT_CRNL
        IF IsNewline(c) THEN st
        ELSE IF c = EOL THEN [st EXCEPT !.state = "START_RECORD"]
        ELSE [st EXCEPT !.error = TRUE]

\* the reader over s from character i on, st the machine's state and rows the
\* rows yielded so far
RECURSIVE reader_next(_, _, _, _)
reader_next(s, i, st, rows) ==
    IF st.error THEN Raised(CsvError)
    ELSE IF i > Len(s) THEN
        \* no line is left: a field still open is saved and the row yielded
        IF st.field # "" \/ st.state = "IN_QUOTED_FIELD"
        THEN Returned(Append(rows, parse_save_field(st).fields))
        ELSE Returned(rows)
    ELSE
        LET c == CharAt(s, i)
            st1 == parse_process_char(st, c)
            lineEnds == c = "\n" \/ i = Len(s)
            st2 == IF lineEnds /\ ~st1.error THEN parse_process_char(st1, EOL) ELSE st1
        IN IF lineEnds /\ ~st2.error /\ st2.state = "START_RECORD"
           THEN reader_next(s, i + 1, parse_reset, Append(rows, st2.fields))
           ELSE reader_next(s, i + 1, st2, rows)

\* list(csv.reader(io.StringIO(s))), or the csv.Error it raises
csv_reader(s) == reader_next(s, 1, parse_reset, << >>)

(***************************************************************************)
(* process_csv_tickets                                                     *)
(***************************************************************************)
\* len(cell_text) > 3
MinMeaningfulLen == 3

\* the inner loop keeping cells of length 3 (>= for >)
RECURSIVE row_tickets_keeps_three(_, _, _)
row_tickets_keeps_three(row, j, tickets) ==
    IF j > Len(row) THEN tickets
    ELSE LET cell_text == Strip(row[j])
         IN row_tickets_keeps_three(row, j + 1,
                IF cell_text # "" /\ Len(cell_text) >= MinMeaningfulLen
                THEN Append(tickets, cell_text)
                ELSE tickets)

\* the inner loop: the tickets of one row appended to tickets
RECURSIVE row_tickets(_, _, _)
row_tickets(row, j, tickets) ==
    IF j > Len(row) THEN tickets
    ELSE LET cell_text == Strip(row[j])
         IN row_tickets(row, j + 1,
                IF cell_text # "" /\ Len(cell_text) > MinMeaningfulLen
                THEN Append(tickets, cell_text)
                ELSE tickets)

\* the outer loop
RECURSIVE rows_tickets(_, _, _)
rows_tickets(rows, i, tickets) ==
    IF i > Len(rows) THEN tickets
    ELSE rows_tickets(rows, i + 1, row_tickets(rows[i], 1, tickets))

process_csv_tickets(csv_content) ==
    LET parsed == csv_reader(csv_content) IN
    IF parsed.raised
    THEN Raised(HTTPException(StatusBadRequest, "Invalid CSV format: " \o Str(parsed.exc)))
    ELSE Returned(rows_tickets(parsed.value, 1, << >>))

(***************************************************************************)
(* POST /api/triage/bulk                                                   *)
(***************************************************************************)
\* the for loop over ticket_texts
RECURSIVE triage_each(_, _)
triage_each(ticket_texts, i) ==
    IF i > Len(ticket_texts) THEN << >>
    ELSE << classify(ticket_texts[i]) >> \o triage_each(ticket_texts, i + 1)

RECURSIVE calls_each(_)
calls_each(n) == IF n = 0 THEN << >> ELSE CoreCalls \o calls_each(n - 1)

\* BulkTriageResponse(tickets=..., total_processed=len(triaged_tickets))
BulkTriageResponse(triaged_tickets) ==
    [tickets |-> triaged_tickets, total_processed |-> Len(triaged_tickets)]

\* `except Exception as e`: every exception raised in the try block that is
\* not a UnicodeDecodeError, the handler's own HTTPExceptions included
except_clauses(e) ==
    IF e.type = "UnicodeDecodeError"
    THEN Raised(HTTPException(StatusBadRequest, "CSV file must be UTF-8 encoded"))
    ELSE Raised(HTTPException(StatusServerError, "Error processing CSV: " \o Str(e)))

\* the body of the try block
try_block(file_content) ==
    LET csv_text == decode_utf8(file_content) IN
    IF csv_text.raised THEN [out |-> csv_text, calls |-> << >>]
    ELSE LET ticket_texts == process_csv_tickets(csv_text.value) IN
         IF ticket_texts.raised THEN [out |-> ticket_texts, calls |-> << >>]
         ELSE IF ticket_texts.value = << >>
         THEN [out |-> Raised(HTTPException(StatusBadRequest, "No valid ticket texts found in CSV")),
               calls |-> << >>]
         ELSE [out |-> Returned(BulkTriageResponse(triage_each(ticket_texts.value, 1))),
               calls |-> calls_each(Len(ticket_texts.value))]

triage_bulk_tickets(file_name, file_content) ==
    IF ~EndsWith(file_name, ".csv")
    THEN [out |-> Raised(HTTPException(StatusBadRequest, "File must be a CSV file")),
          calls |-> << >>]
    ELSE LET r == try_block(file_content) IN
         IF r.out.raised THEN [out |-> except_clauses(r.out.exc), calls |-> r.calls]
         ELSE r

(***************************************************************************)
(* How an outcome reaches the client: the response model with status 200,  *)
(* or the HTTPException's status_code and detail.                          *)
(***************************************************************************)
Respond(out) ==
    IF out.raised
    THEN [status |-> out.exc.status_code, detail |-> out.exc.detail]
    ELSE [status |-> StatusOK, body |-> out.value]

(***************************************************************************)
(* Inputs.                                                                 *)
(***************************************************************************)
Categories == {"billing", "bug", "feature", "other"}

\* phrases of ticket texts: billing phrases ("payment" counts for "payment"
\* and "pay"), bug phrases ("Broken" in mixed case), feature phrases, one
\* phrase with a bug and a feature keyword, urgency words that are no
\* category keyword, and a blank
Phrases ==
    { "payment", "refund", "duplicate charge", "double", "Broken", "not working",
      "slow", "issue", "add", "want bug fixed", "urgent", "crash", " " }

\* a text followed by one more phrase
Join(t, w) == IF t = "" THEN w ELSE t \o " " \o w

RECURSIVE TextsUpTo(_)
TextsUpTo(n) ==
    IF n = 0 THEN {""}
    ELSE LET shorter == TextsUpTo(n - 1) IN shorter \cup {Join(t, w) : t \in shorter, w \in Phrases}

Texts == TextsUpTo(MaxPhrases)

\* pieces of uploaded files: a cell and the character that ends it, a lone
\* quote, a cell that nothing ends, and a byte that is not UTF-8
PartTexts ==
    { "refund,", "refund\n", " slow ,", " slow \n", "abc,", "abc\r", "\"", "Broken" }

Parts == {Encode(s) : s \in PartTexts} \cup { <<255>> }

RECURSIVE ContentsUpTo(_)
ContentsUpTo(n) ==
    IF n = 0 THEN { << >> }
    ELSE LET shorter == ContentsUpTo(n - 1) IN shorter \cup {c \o p : c \in shorter, p \in Parts}

Contents == ContentsUpTo(MaxParts)

Filenames == {"tickets.csv", "tickets.txt", "tickets.CSV"}

(***************************************************************************)
(* The state machine: a call with its arguments is pending (pc = "call");  *)
(* the operation runs to completion (pc = "done").  The program keeps no   *)
(* state between calls.                                                    *)
(***************************************************************************)
NoCounts == [billing |-> 0, bug |-> 0, feature |-> 0]
NoResponse == [status |-> 0]

Init ==
    /\ pc = "call"
    /\ urgency = "none"
    /\ counts = NoCounts
    /\ response = NoResponse
    /\ invoked = << >>
    /\ \/ /\ op = "categorize_ticket"
          /\ text \in Texts /\ category = "none"
          /\ filename = "" /\ content = << >>
       \/ /\ op = "determine_urgency"
          /\ text \in Texts /\ category \in Categories
          /\ filename = "" /\ content = << >>
       \/ /\ op = "triage_ticket"
          /\ text \in Texts /\ category = "none"
          /\ filename = "" /\ content = << >>
       \/ /\ op = "triage_bulk_tickets"
          /\ text = "" /\ category = "none"
          /\ filename \in Filenames /\ content \in Contents

CategorizeTicket ==
    /\ pc = "call" /\ op = "categorize_ticket"
    /\ counts' = keyword_counts(text)
    /\ category' = categorize_ticket(text)
    /\ pc' = "done"
    /\ UNCHANGED <<op, text, urgency, filename, content, response, invoked>>

DetermineUrgency ==
    /\ pc = "call" /\ op = "determine_urgency"
    /\ urgency' = determine_urgency(text, category)
    /\ pc' = "done"
    /\ UNCHANGED <<op, text, category, counts, filename, content, response, invoked>>

TriageTicket ==
    /\ pc = "call" /\ op = "triage_ticket"
    /\ LET r == triage_ticket(text)
       IN /\ response' = Respond(r.out)
          /\ invoked' = r.calls
    /\ pc' = "done"
    /\ UNCHANGED <<op, text, category, urgency, counts, filename, content>>

TriageBulkTickets ==
    /\ pc = "call" /\ op = "triage_bulk_tickets"
    /\ LET r == triage_bulk_tickets(filename, content)
       IN /\ response' = Respond(r.out)
          /\ invoked' = r.calls
    /\ pc' = "done"
    /\ UNCHANGED <<op, text, category, urgency, counts, filename, content>>

Next == CategorizeTicket \/ DetermineUrgency \/ TriageTicket \/ TriageBulkTickets

Spec == Init /\ [][Next]_vars

(***************************************************************************)
(* Vocabulary of the properties.                                           *)
(***************************************************************************)
Done(o) == pc = "done" /\ op = o

CategoryNames == {"billing", "bug", "feature"}

\* the set of entries of a keyword list
Entries(words) == {words[k] : k \in 1..Len(words)}

\* some word of the set occurs in the lower-cased text
Mentions(t, wordset) == \E w \in wordset : Contains(Lower(t), w)

\* s starts with prefix
StartsWith(s, prefix) == Len(s) >= Len(prefix) /\ SubSeq(s, 1, Len(prefix)) = prefix

\* every character of t is whitespace (the empty text included)
IsBlank(t) == \A i \in 1..Len(t) : CharAt(t, i) \in Whitespace

\* the results a successful response carries
ResultsOf(r) == IF op = "triage_ticket" THEN << r.body >> ELSE r.body.tickets

Succeeded == (Done("triage_ticket") \/ Done("triage_bulk_tickets")) /\ response.status = StatusOK

(***************************************************************************)
(* C1: categorize_ticket returns the category with the highest keyword     *)
(* count and defaults to other: a result billing, bug or feature has a     *)
(* count above zero that is at least the other two counts, and the result  *)
(* is other exactly when the three counts are all zero.                    *)
(***************************************************************************)
C1_HighestCountOrOther ==
    Done("categorize_ticket") =>
        /\ category \in Categories
        /\ category \in CategoryNames =>
              /\ counts[category] > 0
              /\ \A k \in CategoryNames : counts[category] >= counts[k]
        /\ category = "other" <=> \A k \in CategoryNames : counts[k] = 0

\* a feature result that ties with bug while billing also matched
C1_Witness ==
    /\ Done("categorize_ticket")
    /\ category = "feature"
    /\ counts.bug = counts.feature
    /\ counts.billing > 0

(***************************************************************************)
(* C2: when billing_count equals bug_count and both are nonzero the result *)
(* is never billing: it is bug when bug_count > feature_count and feature  *)
(* otherwise; billing is returned only when billing_count is strictly      *)
(* greater than both other counts.                                         *)
(***************************************************************************)
C2_BillingBugTie ==
    Done("categorize_ticket") =>
        /\ (counts.billing = counts.bug /\ counts.bug > 0) =>
              /\ category # "billing"
              /\ category = (IF counts.bug > counts.feature THEN "bug" ELSE "feature")
        /\ category = "billing" =>
              (counts.billing > counts.bug /\ counts.billing > counts.feature)

\* a billing/bug tie that goes to bug
C2_Witness ==
    /\ Done("categorize_ticket")
    /\ counts.billing = counts.bug
    /\ counts.bug > counts.feature
    /\ category = "bug"

(***************************************************************************)
(* C3 as stated: whenever bug_count and feature_count are equal and        *)
(* nonzero, the result is feature.                                         *)
(***************************************************************************)
C3_Original ==
    Done("categorize_ticket") =>
        ((counts.bug = counts.feature /\ counts.bug > 0) => category = "feature")

(***************************************************************************)
(* C3 amended: whenever bug_count and feature_count are equal and nonzero, *)
(* the result is billing if billing_count is strictly greater than both    *)
(* and feature otherwise, never bug; bug is returned only when bug_count   *)
(* is strictly greater than feature_count.                                 *)
(***************************************************************************)
C3_BugFeatureTie ==
    Done("categorize_ticket") =>
        /\ (counts.bug = counts.feature /\ counts.bug > 0) =>
              category = (IF counts.billing > counts.bug THEN "billing" ELSE "feature")
        /\ category = "bug" => counts.bug > counts.feature

\* a bug/feature tie that billing wins
C3_Witness ==
    /\ Done("categorize_ticket")
    /\ counts.bug = counts.feature
    /\ counts.bug > 0
    /\ category = "billing"

(***************************************************************************)
(* C4: a billing ticket never gets urgency low: determine_urgency(text,    *)
(* "billing") is high when the lower-cased text contains duplicate,        *)
(* overcharge, wrong amount or double, and medium otherwise; every result  *)
(* of the single or the bulk endpoint whose category is billing has        *)
(* urgency medium or high.                                                 *)
(***************************************************************************)
C4_BillingNeverLow ==
    /\ (Done("determine_urgency") /\ category = "billing") =>
          urgency = (IF Mentions(text, {"duplicate", "overcharge", "wrong amount", "double"})
                     THEN "high" ELSE "medium")
    /\ Succeeded =>
          \A i \in 1..Len(ResultsOf(response)) :
              ResultsOf(response)[i].category = "billing" =>
                  ResultsOf(response)[i].urgency \in {"medium", "high"}

\* the unconditional fallback: a billing text with none of the listed words
C4_Witness ==
    /\ Done("determine_urgency")
    /\ category = "billing"
    /\ categorize_ticket(text) = "billing"
    /\ ~Mentions(text, {"duplicate", "overcharge", "wrong amount", "double",
                        "refund", "credit", "dispute"})
    /\ urgency = "medium"

(***************************************************************************)
(* C5: POST /api/triage answers 400 exactly when the text is empty or only *)
(* whitespace, and then calls none of the core functions; for every other  *)
(* text it returns the category, urgency and rationale of the pipeline     *)
(* categorize -> determine_urgency -> generate_rationale and the request   *)
(* text unchanged.                                                         *)
(***************************************************************************)
C5_TriageRejectsBlank ==
    Done("triage_ticket") =>
        IF IsBlank(text)
        THEN /\ response.status = StatusBadRequest
             /\ invoked = << >>
        ELSE /\ response.status = StatusOK
             /\ response.body.text = text
             /\ response.body.category = categorize_ticket(text)
             /\ response.body.urgency = determine_urgency(text, response.body.category)
             /\ response.body.rationale =
                   generate_rationale(response.body.category, response.body.urgency, text)
             /\ invoked = CoreCalls

\* a text of whitespace only is rejected
C5_Witness ==
    /\ Done("triage_ticket")
    /\ text # ""
    /\ IsBlank(text)
    /\ response.status = StatusBadRequest

(***************************************************************************)
(* C6: on a successful POST /api/triage/bulk the tickets list holds one    *)
(* result per CSV cell whose trimmed length is greater than 3, in          *)
(* row-major cell order, total_processed is the length of that list, and   *)
(* each result is what the single-ticket endpoint returns for that trimmed *)
(* cell text alone.                                                        *)
(***************************************************************************)
RECURSIVE Flatten(_)
Flatten(rows) == IF rows = << >> THEN << >> ELSE Head(rows) \o Flatten(Tail(rows))

\* the cells of the decoded file, in row-major order
CellsOf(bytes) == Flatten(csv_reader(decode_utf8(bytes).value).value)

LongEnough(cell) == Len(cell) > 3

\* the trimmed cells that are longer than 3 characters, in cell order
UsableCells(bytes) ==
    LET cells == CellsOf(bytes)
    IN SelectSeq([i \in 1..Len(cells) |-> Strip(cells[i])], LongEnough)

C6_BulkOnePerUsableCell ==
    (Done("triage_bulk_tickets") /\ response.status = StatusOK) =>
        LET usable == UsableCells(content)
            tickets == response.body.tickets
        IN /\ Len(tickets) = Len(usable)
           /\ response.body.total_processed = Len(usable)
           /\ \A i \in 1..Len(usable) :
                 Respond(triage_ticket(usable[i]).out) = [status |-> StatusOK, body |-> tickets[i]]

\* two rows, a discarded cell among the kept ones
C6_Witness ==
    /\ Done("triage_bulk_tickets")
    /\ response.status = StatusOK
    /\ response.body.total_processed >= 2
    /\ response.body.tickets[1].category # response.body.tickets[2].category
    /\ Len(csv_reader(decode_utf8(content).value).value) >= 2
    /\ Len(CellsOf(content)) > response.body.total_processed
    /\ \E i \in 1..Len(CellsOf(content)) : CellsOf(content)[i] # Strip(CellsOf(content)[i])

(***************************************************************************)
(* C7: on POST /api/triage/bulk a non-.csv filename, non-UTF-8 content,    *)
(* malformed CSV and a CSV with zero usable cells are each answered with a *)
(* 400 (zero usable cells with detail "No valid ticket texts found in      *)
(* CSV", malformed CSV with "Invalid CSV format"), before any ticket is    *)
(* classified.                                                             *)
(***************************************************************************)
C7_BulkRejectedWith400 ==
    Done("triage_bulk_tickets") =>
        LET decoded == decode_utf8(content)
            parsed == csv_reader(decoded.value)
        IN /\ ~EndsWith(filename, ".csv") =>
                 (response.status = StatusBadRequest /\ invoked = << >>)
           /\ (EndsWith(filename, ".csv") /\ decoded.raised) =>
                 (response.status = StatusBadRequest /\ invoked = << >>)
           /\ (EndsWith(filename, ".csv") /\ ~decoded.raised /\ parsed.raised) =>
                 /\ response.status = StatusBadRequest
                 /\ StartsWith(response.detail, "Invalid CSV format")
                 /\ invoked = << >>
           /\ (EndsWith(filename, ".csv") /\ ~decoded.raised /\ ~parsed.raised
                  /\ UsableCells(content) = << >>) =>
                 /\ response.status = StatusBadRequest
                 /\ response.detail = "No valid ticket texts found in CSV"
                 /\ invoked = << >>

(***************************************************************************)
(* C8: each of billing_count, bug_count and feature_count is the number of *)
(* distinct keywords of its set that occur in the lower-cased text, so one *)
(* keyword occurring contributes exactly 1 (a text whose only matching     *)
(* keyword is "broken" has bug_count 1).                                   *)
(***************************************************************************)
DistinctIn(t, words) == Cardinality({w \in Entries(words) : Contains(Lower(t), w)})

C8_CountsDistinctKeywords ==
    Done("categorize_ticket") =>
        /\ counts.billing = DistinctIn(text, billing_keywords)
        /\ counts.bug = DistinctIn(text, bug_keywords)
        /\ counts.feature = DistinctIn(text, feature_keywords)

(***************************************************************************)
(* C9: for category bug determine_urgency is high if the lower-cased text  *)
(* contains crash, broken, not working or can't access, otherwise low if   *)
(* it contains slow, glitch or minor, otherwise medium; the generic        *)
(* vocabularies are not consulted for bug or billing, so adding "urgent"   *)
(* or "critical" to such a ticket does not change its urgency.             *)
(***************************************************************************)
C9_BugUrgencyBySpecificLists ==
    Done("determine_urgency") =>
        /\ category = "bug" =>
              urgency = (IF Mentions(text, {"crash", "broken", "not working", "can't access"})
                         THEN "high"
                         ELSE IF Mentions(text, {"slow", "glitch", "minor"}) THEN "low"
                         ELSE "medium")
        /\ category \in {"bug", "billing"} =>
              \A w \in {"urgent", "critical"} :
                  determine_urgency(text \o " " \o w, category) = urgency

\* a bug ticket that says urgent and is still medium
C9_Witness ==
    /\ Done("determine_urgency")
    /\ category = "bug"
    /\ Mentions(text, {"urgent"})
    /\ categorize_ticket(text) = "bug"
    /\ urgency = "medium"

(***************************************************************************)
(* C10: in every rationale the endpoints produce, "Payment/billing         *)
(* keywords detected" is followed by "Financial impact; time-sensitive"    *)
(* and "System failure/crash keywords detected" by "System critical;       *)
(* immediate attention needed", and the urgency is high.                   *)
(***************************************************************************)
C10_SpecificClauseImpliesHigh ==
    Succeeded =>
        \A i \in 1..Len(ResultsOf(response)) :
            LET r == ResultsOf(response)[i] IN
            /\ StartsWith(r.rationale, "Payment/billing keywords detected") =>
                  /\ r.urgency = "high"
                  /\ r.rationale = "Payment/billing keywords detected; Financial impact; time-sensitive."
            /\ StartsWith(r.rationale, "System failure/crash keywords detected") =>
                  /\ r.urgency = "high"
                  /\ r.rationale =
                        "System failure/crash keywords detected; System critical; immediate attention needed."

\* a billing ticket with the keyword-specific clause
C10_Witness ==
    /\ Done("triage_ticket")
    /\ response.status = StatusOK
    /\ StartsWith(response.body.rationale, "Payment/billing keywords detected")

====
